---- MODULE Spec2Model ----
(***************************************************************************)
(* Model of the report transform of polymarket-dashboard                  *)
(* (src/email/create_html.py): df_to_pretty_html_marketstyle filters,     *)
(* sorts and projects position records into table rows, separators and    *)
(* the three summary numbers of the stats bar.                            *)
(*                                                                         *)
(* Numbers are exact fixed-point integers counted in 1/Unit, so that      *)
(* x / 100.0 and x * 100.0 are exact on every input the model draws       *)
(* (inputs carry at most two decimals).  A pandas cell that holds no      *)
(* number is NaN.                                                          *)
(*                                                                         *)
(* sort_values is called with its default kind, quicksort, which numpy    *)
(* documents as not stable: the order it gives to rows of equal key       *)
(* depends on the numpy build and the CPU.  tieRank is that order; it is  *)
(* fixed for a run and any permutation is possible.                       *)
(*                                                                         *)
(* setup.py asks for pandas>=2.0.0.  Series.astype(str) turns a missing    *)
(* value into the string "nan" and None into the string "None" in pandas  *)
(* 2.x; pandas 3.x casts to the string dtype and keeps both missing.       *)
(*                                                                         *)
(* create_and_send_report fetches the positions, renders the report file  *)
(* and, when asked to, mails it through GmailSender (gmail_sender.py,     *)
(* smtp_config.py).                                                        *)
(***************************************************************************)
EXTENDS Integers, Sequences, FiniteSets

VARIABLES
    records,      \* the payload handed to pd.DataFrame: a sequence of dicts
    tieRank,      \* how this build's quicksort orders equal keys
    pandas,       \* the pandas of this build: "2.x" or "3.x" (setup.py: >=2.0.0)
    pc,           \* "call" before df_to_pretty_html_marketstyle, "done" after
    raised,       \* TRUE when the call ended in an exception
    df,           \* the frame after filter and sort: the input index of each row
    value,        \* Series value   (line 148)
    cash,         \* Series cash    (line 149)
    pct01,        \* Series pct01   (line 150)
    avg_c,        \* Series avg_c   (line 93)
    cur_c,        \* Series cur_c   (line 144)
    display,      \* the display frame (lines 161-166)
    rows_html,    \* the list rows_html (lines 169-180)
    stats,        \* the numbers interpolated into the stats bar (lines 498-507)
    stats_html,   \* the stats bar as rendered (lines 495-511)
    file,         \* what the file at html_path holds
    writes,       \* calls of write_text on html_path
    second,       \* rows and summary of a second call
    other,        \* the payload of the second call, when it is not the first's
    args,         \* send_email and recipient_email of create_and_send_report
    env,          \* the environment variables SMTPConfig.from_env reads
    api,          \* how the positions API answers this run
    gets,         \* GET requests sent to the positions API
    smtp,         \* the steps send_email went through, in order
    message,      \* the message the SMTP server accepted
    result        \* how create_and_send_report ended

\* What df_to_pretty_html_marketstyle computes, and what it leaves behind.
frame == <<df, value, cash, pct01, avg_c, cur_c>>
report == <<display, rows_html, stats, stats_html>>
\* What create_and_send_report and GmailSender add.
workflow == <<args, env, api, gets, smtp, message, result>>

vars == <<records, tieRank, pandas, pc, raised, frame, report, file, writes, second,
          other, workflow>>

----------------------------------------------------------------------------
\* Bounds of the model.
MaxRecs == 3
MaxLayoutRecs == 12

\* Fixed point: one is Unit, a cent of a dollar is Unit \div 100.
Unit == 100 * 100
Abs(x) == IF x < 0 THEN -x ELSE x

\* round-half-even of n/d (d > 0), as Python's float formatting rounds.
RoundHalfEven(n, d) ==
    LET q == n \div d
        r == n % d
    IN  IF 2 * r < d THEN q
        ELSE IF 2 * r > d THEN q + 1
        ELSE IF q % 2 = 0 THEN q ELSE q + 1

----------------------------------------------------------------------------
\* Cells of the payload.  A dict may lack a key ("missing"), hold null, hold a
\* number, hold a string that denotes a number ("str") or any other string
\* ("bad").
Cell(k, v) == [k |-> k, v |-> v]
Missing == Cell("missing", 0)
Null    == Cell("null", 0)
Bad     == Cell("bad", 0)
N(x)    == Cell("num", x)
S(x)    == Cell("str", x)
\* A string that is a text (a title, a slug, an outcome).
T(s)    == Cell("txt", s)

\* Optional numbers: what a float64 Series holds.
\* A Series or a frame of n rows is a sequence 1..n.
AsSeq(f) == f \o <<>>

NaN     == [ok |-> FALSE, v |-> 0]
Num(x)  == [ok |-> TRUE, v |-> x]
notna(x) == x.ok
isna(x)  == ~x.ok

\* pd.DataFrame(data): a column exists when some dict has the key.
HasCol(recs, f) == \E i \in DOMAIN recs : recs[i][f].k # "missing"

\* pd.to_numeric(..., errors="coerce") on one cell.
to_numeric_zero(c) == IF c.k \in {"num", "str"} THEN Num(c.v) ELSE Num(0)
to_numeric(c) == IF c.k \in {"num", "str"} THEN Num(c.v) ELSE NaN

\* df[value_col] > 0 (NaN > 0 is False).
GeZero(x) == notna(x) /\ x.v >= 0
GtZero(x) == notna(x) /\ x.v > 0

\* Rows kept by lines 77-80; without the column nothing is filtered.
Kept(recs) ==
    IF HasCol(recs, "currentValue")
    THEN {i \in DOMAIN recs : GtZero(to_numeric(recs[i].currentValue))}
    ELSE DOMAIN recs

\* ascending=False: the larger key first.
KeyAscending(a, b) == a < b
KeyBefore(a, b) == a > b

\* sort_values(by=value_col, ascending=False) with kind="quicksort": rows of
\* equal key come in an order the build decides (tie).
RowBefore(recs, tie, i, j) ==
    LET a == to_numeric(recs[i].currentValue).v
        b == to_numeric(recs[j].currentValue).v
    IN  KeyBefore(a, b) \/ (a = b /\ tie[i] < tie[j])

sort_values(recs, tie) ==
    LET kept == Kept(recs)
        pos(i) == 1 + Cardinality({j \in kept : RowBefore(recs, tie, j, i)})
    IN  AsSeq([k \in 1..Cardinality(kept) |-> CHOOSE i \in kept : pos(i) = k])

\* Lines 77-81: the frame after filter, sort and reset_index, as input indexes.
FilterOnly(recs, tie) ==
    IF HasCol(recs, "currentValue")
    THEN LET kept == Kept(recs)
             pos(i) == 1 + Cardinality({j \in kept : j < i})
         IN  AsSeq([k \in 1..Cardinality(kept) |-> CHOOSE i \in kept : pos(i) = k])
    ELSE AsSeq([k \in 1..Len(recs) |-> k])
FilterSort(recs, tie) ==
    IF HasCol(recs, "currentValue")
    THEN sort_values(recs, tie)
    ELSE AsSeq([k \in 1..Len(recs) |-> k])

\* pd.to_numeric(df[col], errors="coerce") if col in df.columns else NaNs.
NumericCol(recs, d, f) ==
    IF HasCol(recs, f)
    THEN AsSeq([k \in 1..Len(d) |-> to_numeric(recs[d[k]][f])])
    ELSE AsSeq([k \in 1..Len(d) |-> NaN])

----------------------------------------------------------------------------
\* ---- helpers of df_to_pretty_html_marketstyle ----
NaNs(n) == AsSeq([k \in 1..n |-> NaN])
AnyNotna(col) == \E k \in DOMAIN col : notna(col[k])

\* The threshold 1.5 of lines 44 and 53.
Threshold == (3 * Unit) \div 2

\* col.dropna().iloc[0]: the first entry that parsed.
FirstNotna(col) ==
    col[CHOOSE k \in DOMAIN col :
            notna(col[k]) /\ \A j \in DOMAIN col : j < k => isna(col[j])]

\* col.dropna().median(): the middle of the sorted parsed values, the mean of
\* the two middle ones when their number is even.
Median(col) ==
    LET idx  == {k \in DOMAIN col : notna(col[k])}
        m    == Cardinality(idx)
        lt(a, b) == col[a].v < col[b].v \/ (col[a].v = col[b].v /\ a < b)
        rank(a)  == 1 + Cardinality({b \in idx : lt(b, a)})
        at(r)    == col[CHOOSE a \in idx : rank(a) = r].v
    IN  IF m % 2 = 1 THEN at((m + 1) \div 2)
        ELSE (at(m \div 2) + at(m \div 2 + 1)) \div 2

DivHundred(x) == IF notna(x) THEN Num(x.v \div 100) ELSE NaN
MulHundred(x) == IF notna(x) THEN Num(x.v * 100) ELSE NaN

\* Lines 42-46 of _to_pct01 on the parsed column.  iloc[0] raises IndexError
\* on an empty selection, which the guard of line 42 keeps from happening.
PctGuardAlways(col) == TRUE
PctGuard(col) == AnyNotna(col)

PctIsPercentEach(col) == \E k \in DOMAIN col : notna(col[k]) /\ Abs(col[k].v) > Threshold
PctIsPercent(col) == Abs(FirstNotna(col).v) > Threshold

PctScale(col) ==
    IF PctGuard(col)
    THEN IF ~AnyNotna(col)
         THEN [raised |-> TRUE, col |-> col]
         ELSE IF PctIsPercent(col)
              THEN [raised |-> FALSE, col |-> AsSeq([k \in DOMAIN col |-> DivHundred(col[k])])]
              ELSE [raised |-> FALSE, col |-> col]
    ELSE [raised |-> FALSE, col |-> col]

\* _to_pct01(colname), lines 38-46.
to_pct01(recs, d, f) ==
    IF ~HasCol(recs, f)
    THEN [raised |-> FALSE, col |-> NaNs(Len(d))]
    ELSE PctScale(NumericCol(recs, d, f))

\* Lines 52-55 of _to_cents on the parsed column.
CentsIsFractionFirst(col) == AnyNotna(col) /\ FirstNotna(col).v <= Threshold
CentsIsFraction(col) == AnyNotna(col) /\ Median(col) <= Threshold

CentsScale(col) ==
    IF CentsIsFraction(col)
    THEN AsSeq([k \in DOMAIN col |-> MulHundred(col[k])])
    ELSE col

\* _to_cents(colname), lines 48-55.
to_cents(recs, d, f) ==
    IF ~HasCol(recs, f) THEN NaNs(Len(d)) ELSE CentsScale(NumericCol(recs, d, f))

\* Formatted text, kept as what it shows: kind "empty" is the empty string.
Text(kind, n) == [kind |-> kind, n |-> n]
Empty == Text("empty", 0)

\* _fmt_cents, lines 57-59: "<integer>¢".
fmt_cents_floor(x) == IF isna(x) THEN Empty ELSE Text("cents", x.v \div Unit)
fmt_cents(x) == IF isna(x) THEN Empty ELSE Text("cents", RoundHalfEven(x.v, Unit))
\* _fmt_money, lines 61-63: "$<dollars>.<2 decimals>", n counts cents.
fmt_money(x) == IF isna(x) THEN Empty ELSE Text("money", RoundHalfEven(x.v, Unit \div 100))
\* f"{(pct01*100):.2f}%", line 69: n counts hundredths of a percent.
fmt_pct(x) == IF isna(x) THEN Empty ELSE Text("pct", RoundHalfEven(x.v, Unit \div (100 * 100)))

\* The sign class of line 70.
PnlSignByPct(c, p) ==
    IF (notna(p) /\ p.v >= 0) \/ (isna(p) /\ notna(c) /\ c.v >= 0) THEN "pos" ELSE "neg"
PnlSign(c, p) ==
    IF (notna(c) /\ c.v >= 0) \/ (isna(c) /\ notna(p) /\ p.v >= 0) THEN "pos" ELSE "neg"

\* _fmt_pnl_line, lines 65-74: "" or <span class="pnl sign">cash (pct)</span>.
NoLine == [kind |-> "empty", sign |-> "", cash_s |-> Empty, pct_s |-> Empty]
fmt_pnl_line(c, p) ==
    IF isna(c) /\ isna(p)
    THEN NoLine
    ELSE [kind   |-> "span",
          sign   |-> PnlSign(c, p),
          cash_s |-> IF notna(c) THEN fmt_money(c) ELSE Empty,
          pct_s  |-> fmt_pct(p)]

\* ---- the MARKET cell, lines 84-141 ----
\* An entry of a Series of strings: a string, or missing (NaN or None).
NA == [na |-> TRUE, s |-> ""]
Str(s) == [na |-> FALSE, s |-> s]

\* Series.astype(str) on one cell of a text column.  (The payloads of the
\* model hold texts, nulls and missing keys in these columns, no numbers.)
astype_str(c, b) ==
    IF c.k = "txt" THEN Str(c.v)
    ELSE IF b = "3.x" THEN NA
    ELSE IF c.k = "null" THEN Str("None")
    ELSE Str("nan")

\* str.lower() on the texts of the model.
lower(s) ==
    CASE s \in {"Yes", "YES", "yes"} -> "yes"
      [] s \in {"No", "NO", "no"}    -> "no"
      [] s \in {"NaN", "nan"}        -> "nan"
      [] s = "None"                  -> "none"
      [] OTHER                       -> s

\* Lines 84-88: the title column, else the marketQuestion column, else "".
titles_title_only(recs, i, b) ==
    IF HasCol(recs, "title") THEN astype_str(recs[i].title, b) ELSE Str("")
titles(recs, i, b) ==
    IF HasCol(recs, "title") THEN astype_str(recs[i].title, b)
    ELSE IF HasCol(recs, "marketQuestion") THEN astype_str(recs[i].marketQuestion, b)
    ELSE Str("")
\* Line 89.
slugs(recs, i, b) ==
    IF HasCol(recs, "marketSlug") THEN astype_str(recs[i].marketSlug, b) ELSE NA
\* Line 91.
side(recs, i, b) ==
    IF HasCol(recs, "outcome") THEN astype_str(recs[i].outcome, b) ELSE Str("")

\* Lines 97, 98 and 100: "" for what is missing (line 98 gives None, which
\* line 103 tests like "").
title_txt(t) == IF ~t.na THEN t.s ELSE ""
slug_of(s) == IF ~s.na /\ lower(s.s) # "nan" THEN s.s ELSE ""
side_val(o) == IF ~o.na /\ o.s # "" THEN o.s ELSE ""

\* Lines 103-107: a link when slug is truthy, else a span.
title_html(slug, txt) ==
    IF slug # ""
    THEN [tag |-> "a", href |-> <<"https://polymarket.com/market/", slug>>, text |-> txt]
    ELSE [tag |-> "span", href |-> <<>>, text |-> txt]

\* Lines 111-118: the chip, cls "" when there is none.
chip_html(val) ==
    IF lower(val) = "yes" THEN [cls |-> "chip chip-yes", text |-> val]
    ELSE IF lower(val) = "no" THEN [cls |-> "chip chip-no", text |-> val]
    ELSE IF val # "" THEN [cls |-> "chip", text |-> val]
    ELSE [cls |-> "", text |-> ""]

\* Lines 96-141 for the row of input index i: title and chip.  (The logo and
\* the position line of the cell are left out.)
MarketCell(recs, i, b) ==
    [title |-> title_html(slug_of(slugs(recs, i, b)), title_txt(titles(recs, i, b))),
     chip  |-> chip_html(side_val(side(recs, i, b)))]

\* Lines 143-166: one row of the display frame.
DisplayRow(m, v, c, p, a, u) ==
    [MARKET  |-> m,
     AVG     |-> fmt_cents(a),
     CURRENT |-> fmt_cents(u),
     VALUE   |-> [val |-> IF notna(v) THEN fmt_money(v) ELSE Empty,
                  sub |-> fmt_pnl_line(c, p)]]

\* Line 172: a separator goes before the row of index i (0-based).
SeparatorEveryFifth(i) == i % 5 = 0
SeparatorBefore(i) == i > 0 /\ i % 5 = 0

Separator == [cls |-> "separator-row", i |-> -1]
DataRow(i) == [cls |-> "row", i |-> i]

\* Lines 169-180: rows_html for the display rows of index i and later.
RECURSIVE RowsHtml(_, _)
RowsHtml(n, i) ==
    IF i >= n THEN <<>>
    ELSE (IF SeparatorBefore(i) THEN <<Separator>> ELSE <<>>)
         \o <<DataRow(i)>> \o RowsHtml(n, i + 1)

\* Series.sum(): NaN entries are skipped, the empty sum is 0.
RECURSIVE SeriesSum(_)
SeriesSum(col) ==
    IF Len(col) = 0 THEN 0
    ELSE (IF notna(Head(col)) THEN Head(col).v ELSE 0) + SeriesSum(Tail(col))

\* Lines 498-507: len(df), value.sum(), cash.sum().
StatsOfPayload(recs, d, v, c) ==
    [count      |-> Len(recs),
     totalValue |-> SeriesSum(NumericCol(recs, [k \in DOMAIN recs |-> k], "currentValue")),
     totalPnl   |-> SeriesSum(NumericCol(recs, [k \in DOMAIN recs |-> k], "cashPnl"))]
Stats(recs, d, v, c) ==
    [count |-> Len(d), totalValue |-> SeriesSum(v), totalPnl |-> SeriesSum(c)]

\* Lines 161-166: the display frame, one row for each row of the frame.
Display(recs, b, d, v, c, p, a, u) ==
    AsSeq([k \in 1..Len(d) |->
              DisplayRow(MarketCell(recs, d[k], b), v[k], c[k], p[k], a[k], u[k])])

\* Lines 498-507 as printed: len(df), value.sum() with format ",.0f" and
\* cash.sum() with format "+,.0f" (whole dollars, the sign always shown).
StatsHtml(s) ==
    [count      |-> s.count,
     totalValue |-> Text("dollars", RoundHalfEven(s.totalValue, Unit)),
     totalPnl   |-> [sign |-> IF s.totalPnl < 0 THEN "-" ELSE "+",
                     n    |-> RoundHalfEven(Abs(s.totalPnl), Unit)]]

\* The file at html_path: absent, left by an earlier run, or written by
\* Path(out_path).write_text(html) of line 542.
NoStats == [count |-> 0, totalValue |-> 0, totalPnl |-> 0]
NoFile == [exists |-> FALSE, fresh |-> FALSE, display |-> <<>>, rows |-> <<>>,
           stats |-> StatsHtml(NoStats)]
OldFile == [exists |-> TRUE, fresh |-> FALSE, display |-> <<>>, rows |-> <<>>,
            stats |-> StatsHtml(NoStats)]
write_text(disp, rows, sh) ==
    [exists |-> TRUE, fresh |-> TRUE, display |-> disp, rows |-> rows, stats |-> sh]

\* Line 35, df = df.copy(): the function works on its own copy, the caller's
\* frame is what it was.
CallerFrameInPlace(recs, d) == AsSeq([k \in 1..Len(d) |-> recs[d[k]]])
CallerFrame(recs, d) == recs

\* No second call yet.
NoRun == [display |-> <<>>, rows_html |-> <<>>, stats |-> NoStats,
          stats_html |-> StatsHtml(NoStats)]

----------------------------------------------------------------------------
\* df_to_pretty_html_marketstyle(df), lines 35-543.
BuildReport ==
    /\ pc = "call"
    /\ \E d \in {FilterSort(records, tieRank)} :
       \E v \in {NumericCol(records, d, "currentValue")},
          c \in {NumericCol(records, d, "cashPnl")},
          a \in {to_cents(records, d, "avgPrice")},
          u \in {to_cents(records, d, "curPrice")},
          p \in {to_pct01(records, d, "percentPnl")} :
           /\ df' = d
           /\ raised' = p.raised
           /\ records' = CallerFrame(records, d)
           /\ IF p.raised
              THEN /\ UNCHANGED <<value, cash, pct01, avg_c, cur_c, report, file, writes>>
              ELSE /\ value' = v
                   /\ cash' = c
                   /\ pct01' = p.col
                   /\ avg_c' = a
                   /\ cur_c' = u
                   /\ \E disp \in {Display(records, pandas, d, v, c, p.col, a, u)},
                         s \in {Stats(records, d, v, c)} :
                          /\ display' = disp
                          /\ rows_html' = RowsHtml(Len(d), 0)
                          /\ stats' = s
                          /\ stats_html' = StatsHtml(s)
                          /\ file' = write_text(disp, RowsHtml(Len(d), 0), StatsHtml(s))
                          /\ writes' = writes + 1
    /\ pc' = "done"
    /\ UNCHANGED <<tieRank, pandas, second, other, workflow>>

\* A second call of df_to_pretty_html_marketstyle on the frame the caller
\* still holds, in the same process.
Rerun ==
    /\ pc = "done"
    /\ ~raised
    /\ \E d \in {FilterSort(records, tieRank)} :
       \E v \in {NumericCol(records, d, "currentValue")},
          c \in {NumericCol(records, d, "cashPnl")},
          a \in {to_cents(records, d, "avgPrice")},
          u \in {to_cents(records, d, "curPrice")},
          p \in {to_pct01(records, d, "percentPnl")} :
           /\ ~p.raised
           /\ records' = CallerFrame(records, d)
           /\ \E disp \in {Display(records, pandas, d, v, c, p.col, a, u)},
                 s \in {Stats(records, d, v, c)} :
                  /\ second' = [display |-> disp, rows_html |-> RowsHtml(Len(d), 0),
                                stats |-> s, stats_html |-> StatsHtml(s)]
                  /\ file' = write_text(disp, RowsHtml(Len(d), 0), StatsHtml(s))
                  /\ writes' = writes + 1
    /\ pc' = "rerun"
    /\ UNCHANGED <<tieRank, pandas, raised, frame, report, other, workflow>>

Next == BuildReport
NextRerun == BuildReport \/ Rerun

----------------------------------------------------------------------------
\* ---- create_and_send_report (lines 547-617) and its collaborators ----
NoArgs == [send_email |-> FALSE, recipient_email |-> "None"]
NoEnv == [GMAIL_EMAIL |-> "", GMAIL_APP_PASSWORD |-> "", SMTP_PORT |-> "587",
          USE_TLS |-> "True"]
NoResult == [kind |-> "running", path |-> "", success |-> "None", error |-> ""]
NoMessage == [to |-> "", body |-> NoFile]

\* return out, <success> and an exception that leaves the call.
Return(success) ==
    [kind |-> "return", path |-> "html_path", success |-> success, error |-> ""]
Raise(error) == [kind |-> "raise", path |-> "", success |-> "None", error |-> error]

\* get_user_positions, lines 4-10: what requests.get(URL).json() and
\* pd.DataFrame(data) raise for each state of the API; nothing catches it.
FetchException(a) ==
    CASE a = "unreachable"  -> "requests.ConnectionError"
      [] a = "not json"     -> "requests.JSONDecodeError"
      [] a = "error object" -> "ValueError: If using all scalar values, you must pass an index"

\* Line 564 stands in no try block: the exception leaves the call at once.
OnFetchErrorEmptyFrame(error) == [pc |-> "call", result |-> NoResult]
OnFetchError(error) == [pc |-> "raised", result |-> Raise(error)]

\* Lines 567-568: df['title'] = df['marketQuestion'] when the frame has no
\* title column and has a marketQuestion column.
TitleAlias(recs) ==
    IF ~HasCol(recs, "title") /\ HasCol(recs, "marketQuestion")
    THEN AsSeq([i \in DOMAIN recs |-> [recs[i] EXCEPT !.title = recs[i].marketQuestion]])
    ELSE recs

\* Lines 564-568: one GET, then the alias.
GetUserPositions ==
    /\ pc = "start"
    /\ gets' = gets + 1
    /\ IF api = "ok"
       THEN /\ records' = TitleAlias(records)
            /\ pc' = "call"
            /\ UNCHANGED result
       ELSE \E r \in {OnFetchError(FetchException(api))} :
                /\ pc' = r.pc
                /\ result' = r.result
                /\ UNCHANGED records
    /\ UNCHANGED <<tieRank, pandas, raised, frame, report, file, writes, second,
                   other, args, env, api, smtp, message>>

\* Line 584, if send_email and recipient_email: None and "" are falsy.
TruthyUnlessNone(s) == s # "None"
Truthy(s) == s \notin {"None", ""}
DeliveryRequested == args.send_email /\ Truthy(args.recipient_email)

\* Lines 584 and 617: no delivery asked for, return out, None.
ReturnWithoutDelivery ==
    /\ pc = "done"
    /\ ~raised
    /\ ~DeliveryRequested
    /\ result' = Return("None")
    /\ pc' = "returned"
    /\ UNCHANGED <<records, tieRank, pandas, raised, frame, report, file, writes,
                   second, other, args, env, api, gets, smtp, message>>

\* SMTPConfig.from_env and validate, smtp_config.py lines 20-38, as called by
\* GmailSender.__init__ (gmail_sender.py lines 25-28): the ValueError raised,
\* or "ok".  int(os.getenv('SMTP_PORT', '587')) comes first.
IsInt(s) == s \in {"587", "465"}
InvalidLiteral == "ValueError: invalid literal for int() with base 10"
EmailRequired == "ValueError: GMAIL_EMAIL environment variable is required"
PasswordRequired == "ValueError: GMAIL_APP_PASSWORD environment variable is required"
GmailSenderInitUnvalidated(e) == IF ~IsInt(e.SMTP_PORT) THEN InvalidLiteral ELSE "ok"
GmailSenderInit(e) ==
    IF ~IsInt(e.SMTP_PORT) THEN InvalidLiteral
    ELSE IF e.GMAIL_EMAIL = "" THEN EmailRequired
    ELSE IF e.GMAIL_APP_PASSWORD = "" THEN PasswordRequired
    ELSE "ok"

\* Line 609: "GMAIL_EMAIL" in str(e) or "GMAIL_APP_PASSWORD" in str(e).
MentionsCredentials(error) == error \in {EmailRequired, PasswordRequired}

\* Lines 585-588 and 608-615: sender = GmailSender() and the except clause.
MakeSender ==
    /\ pc = "done"
    /\ ~raised
    /\ DeliveryRequested
    /\ \E e \in {GmailSenderInit(env)} :
          IF e = "ok"
          THEN pc' = "sender" /\ UNCHANGED result
          ELSE IF MentionsCredentials(e)
               THEN pc' = "returned" /\ result' = Return("False")
               ELSE pc' = "raised" /\ result' = Raise(e)
    /\ UNCHANGED <<records, tieRank, pandas, raised, frame, report, file, writes,
                   second, other, args, env, api, gets, smtp, message>>

\* Lines 591-592, open(html_path, 'r'): reading leaves the file as it is.
open_w(f) == [f EXCEPT !.display = <<>>, !.rows = <<>>, !.stats = StatsHtml(NoStats)]
open_r(f) == f

\* use_tls=os.getenv('USE_TLS', 'True').lower() == 'true', smtp_config.py line 29.
UseTls(s) == s \in {"True", "true", "TRUE"}

\* The steps of GmailSender.send_email (gmail_sender.py lines 57-103) and of
\* _send_message (lines 143-162), each of which may raise: building the MIME
\* message, ssl.create_default_context, the probe of socket.create_connection,
\* smtplib.SMTP, starttls when use_tls, login, sendmail, and the QUIT that
\* leaving the with block sends.
Steps(tls) ==
    <<"build", "context", "probe", "connect">>
        \o (IF tls THEN <<"starttls">> ELSE <<>>)
        \o <<"login", "sendmail", "quit">>
FailPoints(tls) == {"none"} \cup {Steps(tls)[k] : k \in DOMAIN Steps(tls)}

\* The steps gone through when the step fail raises ("none": no step does).
Session(tls, fail) ==
    LET s == Steps(tls)
        last == IF fail = "none" THEN Len(s) ELSE CHOOSE k \in DOMAIN s : s[k] = fail
    IN  AsSeq([k \in 1..last |-> [step |-> s[k], ok |-> s[k] # fail]])

\* What send_email returns: True from line 165; False from the handlers of
\* lines 167-185 for what the SMTP session raises and from the handler of
\* lines 105-107 for everything else.
send_email_inner_handlers(fail) ==
    IF fail = "none" THEN "True"
    ELSE IF fail \in {"build", "context"} THEN "raise" ELSE "False"
send_email(fail) == IF fail = "none" THEN "True" ELSE "False"

\* Lines 590-607: read the report, send it, return out, success.
SendEmail ==
    /\ pc = "sender"
    /\ file' = open_r(file)
    /\ \E fail \in FailPoints(UseTls(env.USE_TLS)) :
          /\ smtp' = smtp \o Session(UseTls(env.USE_TLS), fail)
          /\ message' = IF fail \in {"none", "quit"}
                        THEN [to |-> args.recipient_email, body |-> file]
                        ELSE NoMessage
          /\ \E success \in {send_email(fail)} :
                IF success = "raise"
                THEN pc' = "raised" /\ result' = Raise("Exception")
                ELSE pc' = "returned" /\ result' = Return(success)
    /\ UNCHANGED <<records, tieRank, pandas, raised, frame, report, writes, second,
                   other, args, env, api, gets>>

NextSend ==
    GetUserPositions \/ BuildReport \/ ReturnWithoutDelivery \/ MakeSender \/ SendEmail

----------------------------------------------------------------------------
\* Initial states: a payload of at most n dicts with cells drawn from the given
\* sets, and the order this build gives to equal sort keys.
MarketRecords(VC, CC, PC, AC, UC, TC, QC, SC, OC) ==
    [currentValue : VC, cashPnl : CC, percentPnl : PC, avgPrice : AC, curPrice : UC,
     title : TC, marketQuestion : QC, marketSlug : SC, outcome : OC]
\* Payloads whose dicts carry none of the text keys.
Records(VC, CC, PC, AC, UC) ==
    MarketRecords(VC, CC, PC, AC, UC, {Missing}, {Missing}, {Missing}, {Missing})

Identity(n) == [k \in 1..n |-> k]
Perms(n) == {p \in [1..n -> 1..n] : \A i, j \in 1..n : i # j => p[i] # p[j]}

Payload(R, n, anyTie) ==
    /\ \E m \in 0..n : records \in [1..m -> R]
    /\ tieRank \in (IF anyTie THEN Perms(Len(records)) ELSE {Identity(Len(records))})

\* Nothing computed yet.
NoOutput ==
    /\ raised = FALSE
    /\ df = <<>>
    /\ value = <<>>
    /\ cash = <<>>
    /\ pct01 = <<>>
    /\ avg_c = <<>>
    /\ cur_c = <<>>
    /\ display = <<>>
    /\ rows_html = <<>>
    /\ stats = NoStats
    /\ stats_html = StatsHtml(NoStats)
    /\ second = NoRun
    /\ other = <<>>
    /\ writes = 0
    /\ gets = 0
    /\ smtp = <<>>
    /\ message = NoMessage
    /\ result = NoResult

\* A direct call of df_to_pretty_html_marketstyle on the frame of the payload:
\* nothing of create_and_send_report is in play.
InitWith(R, n, anyTie) ==
    /\ Payload(R, n, anyTie)
    /\ pandas = "2.x"
    /\ pc = "call"
    /\ NoOutput
    /\ file = NoFile
    /\ args = NoArgs
    /\ env = NoEnv
    /\ api = "ok"

\* A call of create_and_send_report: what the API serves, the arguments, the
\* environment, and whether an earlier run left a file at html_path.
ApiStates == {"ok", "unreachable", "not json", "error object"}
Args == [send_email : BOOLEAN, recipient_email : {"None", "", "to@example.com"}]
Envs == [GMAIL_EMAIL : {"", "me@gmail.com"}, GMAIL_APP_PASSWORD : {"", "secret"},
         SMTP_PORT : {"587", "smtp"}, USE_TLS : {"True", "no"}]
InitCreateAndSend(R, n, E) ==
    /\ Payload(R, n, FALSE)
    /\ pandas = "2.x"
    /\ pc = "start"
    /\ NoOutput
    /\ file \in {NoFile, OldFile}
    /\ args \in Args
    /\ env \in E
    /\ api \in ApiStates
    /\ api # "ok" => records = <<>>

\* Dollars and cents: D(150, 25) is 150.25.
D(whole, hundredths) == whole * Unit + hundredths * (Unit \div 100)

\* Payloads that exercise the filter and the summary; the sort is stable here.
FilterValueCells ==
    {Missing, Null, Bad, N(0), N(D(-5, 0)), N(D(100, 0)), S(D(250, 0))}
FilterCashCells  == {Missing, Bad, N(D(10, 0)), N(D(-5, 0))}
InitFilter ==
    InitWith(Records(FilterValueCells, FilterCashCells, {N(D(0, 20))}, {Missing},
                     {Missing}),
             MaxRecs, FALSE)
SpecFilter == InitFilter /\ [][Next]_vars

\* Payloads that exercise the sort, equal keys included, under every order a
\* build may give to equal keys.
SortValueCells ==
    {Missing, Bad, N(0), N(D(1, 0)), N(D(10, 0)), S(D(10, 0)), N(D(500, 0))}
SortCashCells == {N(D(10, 0)), N(D(-5, 0))}
\* The positions of a payload differ from one another.
Distinct(recs) == \A i, j \in DOMAIN recs : i # j => recs[i] # recs[j]
InitSort ==
    /\ InitWith(Records(SortValueCells, SortCashCells, {Missing}, {Missing}, {Missing}),
                MaxRecs, TRUE)
    /\ Distinct(records)
SpecSort == InitSort /\ [][Next]_vars

\* Payloads that exercise the percent scale of _to_pct01; the two values make
\* the sort reorder the column.
PctValueCells == {N(D(10, 0)), N(D(20, 0))}
PctCells ==
    {Missing, Bad, N(D(80, 0)), S(D(60, 0)), N(D(90, 0)), N(D(0, 80)), N(D(-90, 0))}
InitPct ==
    InitWith(Records(PctValueCells, {Missing}, PctCells, {Missing}, {Missing}),
             MaxRecs, FALSE)
SpecPct == InitPct /\ [][Next]_vars

\* Payloads that exercise the cents scale of _to_cents.
CentsCells ==
    {Missing, Bad, N(D(0, 63)), S(D(0, 80)), N(D(0, 45)), N(D(63, 0)), N(D(45, 0))}
InitCents ==
    InitWith(Records(PctValueCells, {Missing}, {Missing}, CentsCells, {N(D(0, 50))}),
             MaxRecs, FALSE)
SpecCents == InitCents /\ [][Next]_vars

\* Payloads with missing, null and unparseable entries in the percent and price
\* columns.
AbsentPctCells == {Missing, Null, Bad, N(D(80, 0)), S(D(0, 50))}
AbsentAvgCells == {Missing, Null, Bad, S(D(0, 63))}
InitAbsent ==
    InitWith(Records({N(D(10, 0))}, {Missing}, AbsentPctCells, AbsentAvgCells, {Null}),
             MaxRecs, FALSE)
SpecAbsent == InitAbsent /\ [][Next]_vars

\* Payloads that exercise the sign of the P&L line.
PnlCashCells == {Missing, N(0), N(D(10, 0)), N(D(-5, 0))}
PnlPctCells  == {Bad, N(0), N(D(0, 20)), N(D(0, -50))}
InitPnl ==
    InitWith(Records({N(D(10, 0))}, PnlCashCells, PnlPctCells, {Missing}, {Missing}),
             MaxRecs, FALSE)
SpecPnl == InitPnl /\ [][Next]_vars

\* Payloads long enough for two separators.
LayoutValueCells == {N(0), N(D(10, 0))}
InitLayout ==
    InitWith(Records(LayoutValueCells, {Missing}, {Missing}, {Missing}, {Missing}),
             MaxLayoutRecs, FALSE)
SpecLayout == InitLayout /\ [][Next]_vars

\* Payloads for two calls in a row: equal keys under every order a build may
\* give them, records the filter drops, and both unit inferences at work.
RerunValueCells == {Bad, N(0), N(D(10, 0)), S(D(10, 0)), N(D(500, 0))}
InitRerun ==
    /\ InitWith(Records(RerunValueCells, SortCashCells, {N(D(80, 0))}, {N(D(0, 63))},
                        {Missing}),
                MaxRecs, TRUE)
    /\ Distinct(records)
SpecRerun == InitRerun /\ [][NextRerun]_vars

\* Payloads that exercise the rounding of _fmt_cents: prices in cents with
\* tenths, halves included, beside a current price given as a fraction.
FmtCentsCells ==
    {Missing, Bad, N(D(63, 0)), N(D(63, 40)), N(D(63, 60)), N(D(62, 50)), N(D(63, 50))}
InitFmt ==
    InitWith(Records({N(D(10, 0))}, {Missing}, {Missing}, FmtCentsCells, {S(D(0, 63))}),
             MaxRecs, FALSE)
SpecFmt == InitFmt /\ [][Next]_vars

\* A direct call under either pandas.
InitMarket(R, n) ==
    /\ Payload(R, n, FALSE)
    /\ pandas \in {"2.x", "3.x"}
    /\ pc = "call"
    /\ NoOutput
    /\ file = NoFile
    /\ args = NoArgs
    /\ env = NoEnv
    /\ api = "ok"

\* The rows the filter of lines 77-80 keeps, as records in input order.
SurvivingRows(recs) ==
    LET kept == Kept(recs)
        nth(r) == CHOOSE i \in kept : Cardinality({j \in kept : j < i}) = r - 1
    IN  AsSeq([r \in 1..Cardinality(kept) |-> recs[nth(r)]])

\* Payloads one edit away from recs: a record taken out, or a record replaced
\* by one of R.
RemoveAt(recs, i) ==
    AsSeq([k \in 1..(Len(recs) - 1) |-> IF k < i THEN recs[k] ELSE recs[k + 1]])
Variants(recs, R) ==
    {RemoveAt(recs, i) : i \in DOMAIN recs}
        \cup {[recs EXCEPT ![i] = r] : i \in DOMAIN recs, r \in R}

\* A call of df_to_pretty_html_marketstyle, in the same process, on a payload
\* that has the rows the filter keeps in common with the first call's and
\* differs from it in a row the filter drops.  The sort sees the same filtered
\* frame in both calls and orders equal keys alike.
BuildOther(R) ==
    /\ pc = "done"
    /\ ~raised
    /\ \E o \in Variants(records, R) :
          /\ o # records
          /\ SurvivingRows(o) = SurvivingRows(records)
          /\ other' = o
          /\ \E d \in {FilterSort(o, Identity(Len(o)))} :
             \E v \in {NumericCol(o, d, "currentValue")},
                c \in {NumericCol(o, d, "cashPnl")},
                a \in {to_cents(o, d, "avgPrice")},
                u \in {to_cents(o, d, "curPrice")},
                p \in {to_pct01(o, d, "percentPnl")} :
                 /\ ~p.raised
                 /\ \E disp \in {Display(o, pandas, d, v, c, p.col, a, u)},
                       s \in {Stats(o, d, v, c)} :
                        /\ second' = [display |-> disp,
                                      rows_html |-> RowsHtml(Len(d), 0),
                                      stats |-> s, stats_html |-> StatsHtml(s)]
                        /\ file' = write_text(disp, RowsHtml(Len(d), 0), StatsHtml(s))
                        /\ writes' = writes + 1
    /\ pc' = "other"
    /\ UNCHANGED <<records, tieRank, pandas, raised, frame, report, workflow>>

\* Payloads for two calls that differ in dropped rows only.  The rows the
\* filter keeps carry marketQuestion and prices and percentages as fractions;
\* the rows it drops may carry a title and an outcome and give their price in
\* cents and their percentage in percent.
KeptRecords ==
    MarketRecords({N(D(10, 0))}, {N(D(50, 0))}, {N(D(0, 80))}, {Missing, N(D(0, 63))},
                  {Missing}, {Missing}, {T("Rain tomorrow?")}, {Missing},
                  {Missing, T("Yes")})
DroppedRecords ==
    MarketRecords({N(0)}, {N(D(10, 0))}, {N(D(80, 0))}, {Missing, N(D(63, 0))},
                  {Missing}, {Missing, T("Will it rain?")}, {T("Rain tomorrow?")},
                  {Missing}, {Missing, T("NO")})
InitDropped == InitMarket(KeptRecords \cup DroppedRecords, MaxRecs)
NextDropped == BuildReport \/ BuildOther(DroppedRecords)
SpecDropped == InitDropped /\ [][NextDropped]_vars

\* Payloads that exercise the link and the chip of the market cell: a key may
\* be missing from a dict, hold null, or hold a text.
SlugCells == {Missing, Null, T("will-it-rain")}
OutcomeCells == {Missing, Null, T("Yes"), T("NO"), T("Up")}
InitChip ==
    InitMarket(MarketRecords({N(D(10, 0))}, {Missing}, {Missing}, {Missing}, {Missing},
                             {T("A")}, {Missing}, SlugCells, OutcomeCells),
               MaxRecs)
SpecChip == InitChip /\ [][Next]_vars

\* Payloads that exercise the title and its alias.
TitleCells == {Missing, Null, T("Will it rain?")}
QuestionCells == {Missing, Null, T("Rain tomorrow?")}
InitTitle ==
    InitMarket(MarketRecords({N(D(10, 0))}, {Missing}, {Missing}, {Missing}, {Missing},
                             TitleCells, QuestionCells, {Missing}, {Missing}),
               MaxRecs)
SpecTitle == InitTitle /\ [][Next]_vars

\* Payloads of create_and_send_report: a record the filter drops, one it keeps.
SendValueCells == {N(0), N(D(300, 0))}
InitSend ==
    InitCreateAndSend(MarketRecords(SendValueCells, {N(D(50, 0))}, {N(D(0, 20))},
                                    {Missing}, {Missing}, {T("A")}, {Missing},
                                    {Missing}, {Missing}),
                      MaxRecs, Envs)
SpecSend == InitSend /\ [][NextSend]_vars

\* Payloads of the end-to-end run: records that carry a currentValue of 0 or
\* 300 and may carry cashPnl 50 and percentPnl 0.20, with marketQuestion for
\* title, fetched, rendered and mailed under a complete configuration.
GoodEnvs == [GMAIL_EMAIL : {"me@gmail.com"}, GMAIL_APP_PASSWORD : {"secret"},
             SMTP_PORT : {"587"}, USE_TLS : {"True", "no"}]
InitEndToEnd ==
    InitCreateAndSend(MarketRecords(SendValueCells, {Missing, N(D(50, 0))},
                                    {Missing, N(D(0, 20))}, {Missing}, {Missing},
                                    {Missing}, {T("Rain tomorrow?")}, {Missing},
                                    {Missing}),
                      MaxRecs, GoodEnvs)
SpecEndToEnd == InitEndToEnd /\ [][NextSend]_vars

\* The payloads of the direct calls SpecFilter to SpecLayout.
Init ==
    InitFilter \/ InitSort \/ InitPct \/ InitCents \/ InitAbsent \/ InitPnl \/ InitLayout
Spec == Init /\ [][Next]_vars

----------------------------------------------------------------------------
\* What the claims speak of.
Done == pc = "done"
\* The record's currentValue parses to a number above zero.
Positive(r) == r.currentValue.k \in {"num", "str"} /\ r.currentValue.v > 0
\* How many rows of the output come from input record i.
RowsOf(i) == Cardinality({k \in DOMAIN df : df[k] = i})
ParsedOrZero(c) == IF c.k \in {"num", "str"} THEN c.v ELSE 0
RECURSIVE SumRows(_, _)
SumRows(f, k) ==
    IF k = 0 THEN 0 ELSE ParsedOrZero(records[df[k]][f]) + SumRows(f, k - 1)
DataRows == {t \in DOMAIN rows_html : rows_html[t].cls = "row"}
Separators == {t \in DOMAIN rows_html : rows_html[t].cls = "separator-row"}

\* C1 (as claimed): buildReport emits exactly one row for each record whose
\* currentValue parses to a number above 0 and no row for a record whose
\* currentValue is absent (the key missing included), non-numeric, zero or
\* negative.  Fails when no record carries the key: nothing is filtered.
C1_OneRowPerPositiveRecord ==
    Done => \A i \in DOMAIN records :
                RowsOf(i) = (IF Positive(records[i]) THEN 1 ELSE 0)

\* C2: the output rows are ordered by currentValue descending: of two adjacent
\* rows the earlier one's currentValue is >= the later one's.
\* (Rows carry a currentValue whenever the frame has the column.)
C2_RowsDescending ==
    Done =>
        /\ HasCol(records, "currentValue") => \A k \in DOMAIN value : notna(value[k])
        /\ Len(value) = Len(df)
        /\ \A k \in DOMAIN value :
              (k + 1 \in DOMAIN value /\ notna(value[k]) /\ notna(value[k + 1]))
                  => value[k].v >= value[k + 1].v
\* Input values [10, 500, 1] come out as [500, 10, 1].
C2_Witness ==
    /\ Done
    /\ Len(records) = 3
    /\ records[1].currentValue = N(D(10, 0))
    /\ records[2].currentValue = N(D(500, 0))
    /\ records[3].currentValue = N(D(1, 0))
    /\ value = <<Num(D(500, 0)), Num(D(10, 0)), Num(D(1, 0))>>
    /\ df = <<2, 1, 3>>

\* C3 (as claimed): the sort is stable: two surviving records of equal
\* currentValue keep their input order in the output.
C3_StableSort ==
    Done => \A k, l \in DOMAIN df :
                (k < l /\ notna(value[k]) /\ value[k] = value[l]) => df[k] < df[l]
\* C3 (amended): the sort only reorders: every surviving record is in the
\* output exactly once, and a record of strictly greater currentValue comes
\* before every record of smaller currentValue; the order among records of
\* equal currentValue is the sort algorithm's and need not be the input order.
C3_SortPermutesSurvivors ==
    (Done /\ HasCol(records, "currentValue")) =>
        /\ \A i \in DOMAIN records :
              RowsOf(i) = (IF Positive(records[i]) THEN 1 ELSE 0)
        /\ \A k, l \in DOMAIN df :
              records[df[k]].currentValue.v > records[df[l]].currentValue.v => k < l
\* Two records of equal currentValue whose rows differ come out in the reverse
\* of their input order.
C3_Witness ==
    /\ Done
    /\ \E k, l \in DOMAIN df :
          /\ k < l /\ notna(value[k]) /\ value[k] = value[l] /\ df[k] > df[l]
          /\ display[k] # display[l]

\* The raw column handed to a normalizer: the cells of the frame's rows.
Parses(c) == c.k \in {"num", "str"}
RawCol(f) == [k \in DOMAIN df |-> records[df[k]][f]]
\* The first row of the column whose entry parses.
IsFirstParsed(col, k) ==
    /\ k \in DOMAIN col
    /\ Parses(col[k])
    /\ \A j \in DOMAIN col : j < k => ~Parses(col[j])

\* C4: normalizePercent takes its scale from the first parsed value alone: when
\* its absolute value exceeds 1.5 every value is divided by 100, otherwise
\* every value is returned as it is.
C4_PercentScaleFromFirst ==
    (Done /\ HasCol(records, "percentPnl")) =>
        LET col == RawCol("percentPnl")
        IN  \A f \in DOMAIN col :
                IsFirstParsed(col, f) =>
                    \A k \in DOMAIN col :
                        Parses(col[k]) =>
                            /\ notna(pct01[k])
                            /\ IF Abs(col[f].v) * 2 > 3 * Unit
                               THEN pct01[k].v * 100 = col[k].v
                               ELSE pct01[k].v = col[k].v
\* Column [80, 60, 90] came out as [0.8, 0.6, 0.9].
C4_Witness ==
    /\ Done
    /\ Len(df) = 3
    /\ RawCol("percentPnl") = <<N(D(80, 0)), S(D(60, 0)), N(D(90, 0))>>
    /\ pct01 = <<Num(D(0, 80)), Num(D(0, 60)), Num(D(0, 90))>>

\* Twice the median of a non-empty sequence of numbers, by dropping one least
\* and one greatest value until one or two are left.
Least(s) == CHOOSE k \in DOMAIN s : \A j \in DOMAIN s : s[k] <= s[j]
Greatest(s) == CHOOSE k \in DOMAIN s : \A j \in DOMAIN s : s[k] >= s[j]
Without(s, a, b) ==
    LET keep == {k \in DOMAIN s : k # a /\ k # b}
        nth(r) == CHOOSE k \in keep : Cardinality({j \in keep : j < k}) = r - 1
    IN  [r \in 1..Cardinality(keep) |-> s[nth(r)]]
RECURSIVE TwiceMedian(_)
TwiceMedian(s) ==
    IF Len(s) = 1 THEN 2 * s[1]
    ELSE IF Len(s) = 2 THEN s[1] + s[2]
    ELSE TwiceMedian(Without(s, Least(s), Greatest(s)))
ParsedValues(col) ==
    LET idx == {k \in DOMAIN col : Parses(col[k])}
        nth(r) == CHOOSE k \in idx : Cardinality({j \in idx : j < k}) = r - 1
    IN  [r \in 1..Cardinality(idx) |-> col[nth(r)].v]
CentsAsClaimed(col, out) ==
    LET vals == ParsedValues(col)
    IN  Len(vals) > 0 =>
          /\ \A k \in DOMAIN col :
                Parses(col[k]) =>
                    /\ notna(out[k])
                    /\ IF TwiceMedian(vals) <= 3 * Unit
                       THEN out[k].v = col[k].v * 100
                       ELSE out[k].v = col[k].v
          /\ (\A r \in DOMAIN vals : 2 * vals[r] <= 3 * Unit)
                => \A k \in DOMAIN col : Parses(col[k]) => out[k].v = 100 * col[k].v
          /\ (\A r \in DOMAIN vals : 2 * vals[r] > 3 * Unit)
                => \A k \in DOMAIN col : Parses(col[k]) => out[k].v = col[k].v

\* C5: normalizeCents takes its scale from the median of the parsed values:
\* median <= 1.5 multiplies every value by 100, otherwise every value is
\* returned as it is; so a column of values all <= 1.5 is scaled and a column
\* of values all > 1.5 passes unchanged.
C5_CentsScaleFromMedian ==
    Done =>
        /\ HasCol(records, "avgPrice") => CentsAsClaimed(RawCol("avgPrice"), avg_c)
        /\ HasCol(records, "curPrice") => CentsAsClaimed(RawCol("curPrice"), cur_c)
\* Column [0.63, 0.80, 0.45] came out as [63, 80, 45].
C5_Witness ==
    /\ Done
    /\ Len(df) = 3
    /\ RawCol("avgPrice") = <<N(D(0, 63)), S(D(0, 80)), N(D(0, 45))>>
    /\ avg_c = <<Num(D(63, 0)), Num(D(80, 0)), Num(D(45, 0))>>

AbsentKept(f, out) ==
    /\ Len(out) = Len(df)
    /\ \A k \in DOMAIN df : isna(out[k]) <=> ~Parses(records[df[k]][f])

\* C6: normalizePercent and normalizeCents never fail, whatever the column
\* holds and also when the column is missing: they return one entry per row,
\* and an entry that is missing or does not parse comes back absent at its own
\* position, never as 0.
C6_AbsenceKept ==
    Done =>
        /\ ~raised
        /\ AbsentKept("percentPnl", pct01)
        /\ AbsentKept("avgPrice", avg_c)
        /\ AbsentKept("curPrice", cur_c)
\* A column with a number between two entries that do not parse, beside a
\* column that is missing and one that holds nothing but nulls.
C6_Witness ==
    /\ Done
    /\ ~raised
    /\ Len(df) = 3
    /\ RawCol("percentPnl") = <<Bad, N(D(80, 0)), Null>>
    /\ pct01 = <<NaN, Num(D(0, 80)), NaN>>
    /\ ~HasCol(records, "avgPrice")
    /\ avg_c = <<NaN, NaN, NaN>>
    /\ cur_c = <<NaN, NaN, NaN>>

\* C7: the summary counts the surviving records, totals their currentValue and
\* totals their cashPnl with absent or unparseable cashPnl as 0; dropped
\* records contribute to none of the three.
C7_SummaryOverSurvivors ==
    Done =>
        /\ stats.count = Len(df)
        /\ stats.count = Cardinality(DataRows)
        /\ stats.totalValue = SumRows("currentValue", Len(df))
        /\ stats.totalPnl = SumRows("cashPnl", Len(df))
\* currentValue [100, 250] with cashPnl [10, -5], beside a dropped record that
\* carries a cashPnl: count 2, total value 350, total P&L 5.
C7_Witness ==
    /\ Done
    /\ Len(records) = 3
    /\ \E i \in DOMAIN records :
          /\ ~Positive(records[i])
          /\ records[i].cashPnl = N(D(10, 0))
    /\ \E i, j \in DOMAIN records :
          /\ records[i].currentValue = N(D(100, 0)) /\ records[i].cashPnl = N(D(10, 0))
          /\ records[j].currentValue = S(D(250, 0)) /\ records[j].cashPnl = N(D(-5, 0))
    /\ stats = [count |-> 2, totalValue |-> D(350, 0), totalPnl |-> D(5, 0)]

\* C8: a separator row stands immediately before the data row of index i
\* exactly when i > 0 and i is a multiple of 5, and nowhere else: not before
\* row 0, not after the last row; n >= 1 rows have (n - 1) \div 5 separators.
C8_SeparatorEveryFifthRow ==
    Done =>
        LET n == Len(display)
        IN  /\ Cardinality(DataRows) = n
            /\ \A i \in 0..(n - 1) : \E t \in DataRows : rows_html[t].i = i
            /\ \A t, u \in DataRows : t < u => rows_html[t].i < rows_html[u].i
            /\ \A t \in Separators :
                  /\ t + 1 \in DataRows
                  /\ rows_html[t + 1].i > 0
                  /\ rows_html[t + 1].i % 5 = 0
            /\ \A t \in DataRows :
                  (rows_html[t].i > 0 /\ rows_html[t].i % 5 = 0)
                      => t - 1 \in Separators
            /\ n >= 1 => Cardinality(Separators) = (n - 1) \div 5
            /\ n = 0 => rows_html = <<>>
\* Twelve rows: separators before rows 5 and 10 only.
C8_Witness ==
    /\ Done
    /\ Len(display) = 12
    /\ Separators = {6, 12}
    /\ rows_html[7] = DataRow(5)
    /\ rows_html[13] = DataRow(10)
    /\ Len(rows_html) = 14

\* C9: formatPnlLine is the empty string exactly when cash and pct01 are both
\* absent; otherwise its sign class is pos when cash is present and >= 0, or
\* cash is absent and pct01 >= 0, and neg in every other case.
C9_PnlLineSign ==
    Done =>
        \A k \in DOMAIN display :
            LET c    == records[df[k]].cashPnl
                p    == pct01[k]
                line == display[k].VALUE.sub
            IN  /\ (line.kind = "empty") <=> (~Parses(c) /\ isna(p))
                /\ line.kind # "empty" =>
                      /\ line.kind = "span"
                      /\ line.sign \in {"pos", "neg"}
                      /\ (line.sign = "pos") <=>
                            \/ (Parses(c) /\ c.v >= 0)
                            \/ (~Parses(c) /\ notna(p) /\ p.v >= 0)
\* A row whose cash is negative while its percentage is positive reads neg,
\* beside a row without cash whose sign comes from the percentage, and a row
\* with neither.
C9_Witness ==
    /\ Done
    /\ \E k \in DOMAIN display :
          /\ records[df[k]].cashPnl = N(D(-5, 0))
          /\ pct01[k] = Num(D(0, 20))
          /\ display[k].VALUE.sub.sign = "neg"
    /\ \E k \in DOMAIN display :
          /\ records[df[k]].cashPnl = Missing
          /\ pct01[k] = Num(D(0, 20))
          /\ display[k].VALUE.sub.sign = "pos"
    /\ \E k \in DOMAIN display :
          /\ records[df[k]].cashPnl = Missing
          /\ isna(pct01[k])
          /\ display[k].VALUE.sub = NoLine

\* C10: when the filter leaves no record (the empty payload included) the call
\* does not fail: no data row, no separator, and the summary is 0, $0, $0.
C10_EmptyReport ==
    (Done /\ (Len(records) = 0 \/ HasCol(records, "currentValue"))
          /\ \A i \in DOMAIN records : ~Positive(records[i]))
        => /\ ~raised
           /\ display = <<>>
           /\ rows_html = <<>>
           /\ stats = [count |-> 0, totalValue |-> 0, totalPnl |-> 0]
\* A payload of three records, none of which passes the filter, was rendered.
C10_Witness ==
    /\ Done
    /\ ~raised
    /\ Len(records) = 3
    /\ HasCol(records, "currentValue")
    /\ \A i \in DOMAIN records : ~Positive(records[i])
    /\ \E i \in DOMAIN records : records[i].cashPnl = N(D(10, 0))
    /\ rows_html = <<>>

Ended == pc \in {"returned", "raised"}
\* The file at html_path holds the report this run rendered, whole.
FileComplete == file = write_text(display, rows_html, stats_html)
\* Delivery was asked for and the report is rendered: the delivery steps are
\* about to start, under way, or over.
AtDelivery ==
    /\ DeliveryRequested
    /\ api = "ok"
    /\ pc \in {"done", "sender", "returned", "raised"}

\* C12: in create_and_send_report with delivery requested, the report file is
\* fully written before any delivery step starts, and on every delivery outcome
\* (sent, send returned False, exception raised during delivery) the file at
\* html_path still holds the rendered content; what is mailed is that content.
C12_FileKeptThroughDelivery ==
    AtDelivery =>
        /\ FileComplete
        /\ message # NoMessage => message.body = file
\* Login failed in a session for a report of two rows: send_email returned
\* False and the file is the report.
C12_Witness ==
    /\ pc = "returned"
    /\ DeliveryRequested
    /\ result = Return("False")
    /\ \E k \in DOMAIN smtp : smtp[k] = [step |-> "login", ok |-> FALSE]
    /\ Len(file.rows) = 2
    /\ file.fresh

\* C13 (as claimed): whenever delivery is requested and fails, for whatever
\* reason, create_and_send_report does not raise but returns the report path
\* with False.  Fails when SMTP_PORT is not an integer: the ValueError of int()
\* names neither credential variable and line 615 raises it again.
C13_DeliveryFailureNotFatal ==
    (AtDelivery /\ Ended /\ result # Return("True")) => result = Return("False")

\* C14: when the fetch fails, create_and_send_report lets the failure out to
\* its caller after exactly one GET, writes no report file and attempts no
\* delivery; no run sends a second GET, and a run that returns has produced a
\* complete report file.
C14_FetchFailurePropagates ==
    /\ gets <= 1
    /\ (api # "ok" /\ pc # "start") =>
          /\ pc = "raised"
          /\ result = Raise(FetchException(api))
          /\ gets = 1
          /\ file \in {NoFile, OldFile}
          /\ smtp = <<>>
          /\ message = NoMessage
    /\ Ended => (result.kind = "raise" \/ (result.kind = "return" /\ FileComplete))
\* The API answered with something that is not JSON while delivery was asked
\* for and an earlier run's file was in place.
C14_Witness ==
    /\ pc = "raised"
    /\ api = "not json"
    /\ DeliveryRequested
    /\ result = Raise("requests.JSONDecodeError")
    /\ file = OldFile
    /\ gets = 1

\* The session went through step s without an error.
Completed(s) == \E k \in DOMAIN smtp : smtp[k] = [step |-> s, ok |-> TRUE]

\* C20: GmailSender.send_email never raises to its caller: it returns True
\* only if the session completed connect, STARTTLS (when use_tls), login and
\* sendmail without error, and False for a failure at any step, message
\* building included.
C20_SendEmailNeverRaises ==
    smtp # <<>> =>
        /\ pc = "returned"
        /\ result.kind = "return"
        /\ result.success \in {"True", "False"}
        /\ (result.success = "True") <=> (\A k \in DOMAIN smtp : smtp[k].ok)
        /\ result.success = "True" =>
              /\ Completed("connect")
              /\ Completed("login")
              /\ Completed("sendmail")
              /\ UseTls(env.USE_TLS) => Completed("starttls")
\* Building the message raised before any connection: the caller got False.
C20_Witness ==
    /\ smtp = <<[step |-> "build", ok |-> FALSE]>>
    /\ result = Return("False")
    /\ pc = "returned"

\* The key holds a text: the field is present in the record.
Present(c) == c.k = "txt"

\* C15 (as claimed): for every surviving record the chip is chip-yes when
\* outcome is "yes" ignoring case, chip-no when it is "no" ignoring case, the
\* plain chip for any other present outcome, and there is no chip when the
\* outcome is absent (missing column, null or missing value).  Fails under
\* pandas 2.x, where astype(str) hands "None" or "nan" to the chip.
C15_SideChip ==
    Done => \A k \in DOMAIN display :
        LET o == records[df[k]].outcome
            chip == display[k].MARKET.chip
        IN  IF ~Present(o) THEN chip.cls = ""
            ELSE /\ chip.text = o.v
                 /\ chip.cls = (IF o.v \in {"yes", "Yes", "YES"} THEN "chip chip-yes"
                                ELSE IF o.v \in {"no", "No", "NO"} THEN "chip chip-no"
                                ELSE "chip")

\* C16 (as claimed): for every surviving record the title is a hyperlink to
\* https://polymarket.com/market/{slug} exactly when marketSlug is present and
\* plain text whenever it is absent (missing column, null or missing value).
\* Fails under pandas 2.x for a null slug: the link goes to /market/None.
C16_TitleLink ==
    Done => \A k \in DOMAIN display :
        LET s == records[df[k]].marketSlug
            t == display[k].MARKET.title
        IN  IF Present(s)
            THEN t.tag = "a" /\ t.href = <<"https://polymarket.com/market/", s.v>>
            ELSE t.tag = "span" /\ t.href = <<>>

\* C17 (as claimed): whenever a record's title is absent and its
\* marketQuestion is present the cell displays the marketQuestion text, and
\* whenever title is present title is displayed.
C17_AliasPerRecord ==
    Done => \A k \in DOMAIN display :
        LET r == records[df[k]]
            text == display[k].MARKET.title.text
        IN  /\ Present(r.title) => text = r.title.v
            /\ (~Present(r.title) /\ Present(r.marketQuestion))
                   => text = r.marketQuestion.v
\* C17 (amended): marketQuestion stands in for the title column as a whole:
\* when no record of the payload carries the key title, a record whose
\* marketQuestion is present displays it; a record whose title is present
\* displays its title; a record without title in a payload where some record
\* carries the key title does not fall back to its marketQuestion.  The alias
\* made by the caller (lines 567-568) gives the same cell as the fallback of
\* lines 84-88.
C17_AliasPerColumn ==
    Done => \A k \in DOMAIN display :
        LET r == records[df[k]]
            text == display[k].MARKET.title.text
        IN  /\ Present(r.title) => text = r.title.v
            /\ (~HasCol(records, "title") /\ Present(r.marketQuestion))
                   => text = r.marketQuestion.v
            /\ (HasCol(records, "title") /\ ~Present(r.title))
                   => text \in {"", "nan", "None"}
            /\ MarketCell(TitleAlias(records), df[k], pandas) = display[k].MARKET
\* No record carries title; one row shows its marketQuestion, another, whose
\* marketQuestion is null, does not.
C17_Witness ==
    /\ Done
    /\ ~HasCol(records, "title")
    /\ \E k, l \in DOMAIN display :
          /\ records[df[k]].marketQuestion = T("Rain tomorrow?")
          /\ display[k].MARKET.title.text = "Rain tomorrow?"
          /\ records[df[l]].marketQuestion = Null
          /\ display[l].MARKET.title.text # "Rain tomorrow?"

\* The text is x rounded to the nearest integer followed by the cent sign, or
\* the empty string for an absent x.
CentsTextOf(text, x) ==
    IF isna(x) THEN text.kind = "empty"
    ELSE /\ text.kind = "cents"
         /\ 2 * Abs(text.n * Unit - x.v) <= Unit
         /\ x.v = D(63, 0) => text.n = 63

ZeroRecord(r) ==
    /\ r.currentValue = N(0)
    /\ r.cashPnl = Missing
    /\ r.percentPnl = Missing
KeptRecord(r) ==
    /\ r.currentValue = N(D(300, 0))
    /\ r.cashPnl = N(D(50, 0))
    /\ r.percentPnl = N(D(0, 20))
ExamplePayload ==
    /\ Len(records) = 2
    /\ ZeroRecord(records[1])
    /\ KeptRecord(records[2])

\* C19: end to end, for two raw records, one with currentValue = 0 and one
\* with currentValue = 300, cashPnl = 50, percentPnl = 0.20, the report has
\* exactly one row (the second record), its P&L line shows 20.00%, and the
\* rendered summary shows count 1, total value 300 dollars and total P&L
\* plus 50 dollars.
C19_EndToEnd ==
    (ExamplePayload /\ pc \in {"done", "sender", "returned"}) =>
        /\ df = <<2>>
        /\ Cardinality(DataRows) = 1
        /\ Separators = {}
        /\ Len(display) = 1
        /\ display[1].VALUE.sub.pct_s = Text("pct", 20 * 100)
        /\ display[1].VALUE.sub.cash_s = Text("money", 50 * 100)
        /\ display[1].VALUE.sub.sign = "pos"
        /\ display[1].MARKET.title.text = "Rain tomorrow?"
        /\ stats_html = [count      |-> 1,
                         totalValue |-> Text("dollars", 300),
                         totalPnl   |-> [sign |-> "+", n |-> 50]]
        /\ file = write_text(display, rows_html, stats_html)
\* The example payload was fetched, rendered and mailed.
C19_Witness ==
    /\ ExamplePayload
    /\ pc = "returned"
    /\ result = Return("True")
    /\ message.body.stats.count = 1
    /\ Len(message.body.display) = 1


\* Calls of send_email: each starts by building the message.
Attempts == Cardinality({k \in DOMAIN smtp : smtp[k].step = "build"})
\* send_email is true and recipient_email is a non-empty string.
Requested == args.send_email /\ args.recipient_email \notin {"None", ""}

\* C21 (as claimed): delivery is attempted only when send_email is true and
\* recipient_email is non-empty, then at most one send attempt is made and the
\* call returns (path, True) or (path, False); in every other case no SMTP
\* connection is opened and the call returns (path, None); in all cases
\* exactly one fetch and one report write happen per call.  Fails when
\* SMTP_PORT is not an integer (the call raises, see C13), and when the fetch
\* fails (the call raises and nothing is written).
C21_DeliveryOnlyOnRequest ==
    /\ Attempts <= 1
    /\ ~Requested => smtp = <<>>
    /\ Ended =>
          /\ gets = 1
          /\ writes = 1
          /\ IF Requested
             THEN result \in {Return("True"), Return("False")}
             ELSE result = Return("None")
\* C21 (amended): every call sends exactly one GET.  A call whose fetch fails
\* raises, writes nothing and opens no SMTP connection.  A call whose fetch
\* succeeds writes the report exactly once; it attempts delivery only when
\* send_email is true and recipient_email is non-empty, then makes at most one
\* send attempt and returns (path, True) or (path, False), or raises, before
\* any send, the ValueError of a non-integer SMTP_PORT; in every other case
\* it opens no SMTP connection and returns (path, None).
C21_OneFetchOneWriteOneSend ==
    /\ Attempts <= 1
    /\ gets <= 1
    /\ writes <= 1
    /\ ~Requested => smtp = <<>>
    /\ Ended =>
          /\ gets = 1
          /\ IF api # "ok"
             THEN writes = 0 /\ smtp = <<>> /\ result.kind = "raise"
             ELSE /\ writes = 1
                  /\ IF Requested
                     THEN \/ result = Return("True") /\ Attempts = 1
                          \/ result = Return("False")
                          \/ result = Raise(InvalidLiteral) /\ smtp = <<>>
                     ELSE result = Return("None")
\* send_email was true with an empty recipient: the report was written once
\* and the call returned (path, None) without a session.
C21_Witness ==
    /\ pc = "returned"
    /\ args = [send_email |-> TRUE, recipient_email |-> ""]
    /\ result = Return("None")
    /\ smtp = <<>>
    /\ gets = 1
    /\ writes = 1
    /\ Len(file.rows) = 2


\* The sender email or the sender password of the environment is empty.
CredentialsMissing == env.GMAIL_EMAIL = "" \/ env.GMAIL_APP_PASSWORD = ""
\* from_env could build the configuration that validate then looks at.
ConfigLoaded == env.SMTP_PORT \in {"587", "465"}

\* C22: no SMTP connection or login is ever attempted with missing
\* credentials: constructing a GmailSender whose sender email or sender
\* password is empty raises the ValueError that names GMAIL_EMAIL or
\* GMAIL_APP_PASSWORD before any send, and create_and_send_report turns
\* exactly that error into (path, False), the report file already written.
C22_NoSessionWithoutCredentials ==
    /\ CredentialsMissing =>
          /\ smtp = <<>>
          /\ message = NoMessage
          /\ pc # "sender"
    /\ (CredentialsMissing /\ ConfigLoaded) =>
          /\ GmailSenderInit(env) =
                (IF env.GMAIL_EMAIL = "" THEN EmailRequired ELSE PasswordRequired)
          /\ (Requested /\ api = "ok" /\ Ended) =>
                /\ result = Return("False")
                /\ FileComplete
                /\ writes = 1
    /\ (Ended /\ result = Return("False") /\ smtp = <<>>) => CredentialsMissing
    /\ (Ended /\ result.kind = "raise" /\ api = "ok") => ~ConfigLoaded
\* Delivery was asked for with GMAIL_EMAIL set and GMAIL_APP_PASSWORD empty:
\* the call returned (path, False) without a session, the report of two rows
\* on disk.
C22_Witness ==
    /\ pc = "returned"
    /\ Requested
    /\ env.GMAIL_EMAIL = "me@gmail.com"
    /\ env.GMAIL_APP_PASSWORD = ""
    /\ env.SMTP_PORT = "587"
    /\ result = Return("False")
    /\ smtp = <<>>
    /\ Len(file.rows) = 2


\* C23 (as claimed): records dropped by the filter have no influence on the
\* report: two payloads with the same surviving records in the same order,
\* differing only in dropped records, yield identical rows and an identical
\* summary.  Fails when a dropped record carries a text key that no surviving
\* record carries: the frame gets the column and every row shows it.
C23_DroppedRecordsNoInfluence ==
    pc = "other" =>
        /\ second.display = display
        /\ second.rows_html = rows_html
        /\ second.stats = stats
        /\ second.stats_html = stats_html

====
